---- MODULE Spec2Model ----
(***************************************************************************)
(* Model of cmd/puppeth/wizard_swarm.go: the status checker                *)
(* (checkSwarmNode) and the convergence driver (deploySwarm) of the swarm  *)
(* node wizard, together with the remote command channel they talk to.     *)
(*                                                                         *)
(* Text (Go string / []byte) is a sequence of tokens.  A literal of the    *)
(* source is one token, a formatted integer is one token per digit, and    *)
(* concatenation is \o.  The empty string is <<>>.                         *)
(***************************************************************************)
EXTENDS Integers, Sequences, FiniteSets, TLC

VARIABLES
    pc,         \* position of the running routine
    log,        \* remote channel: the operations issued so far, in order
    network,    \* argument: network name
    swarmboot,  \* deploySwarm: argument, the supplied bootstrap-peer list
    config,     \* deploySwarm: argument, the merged configuration
    nocache,    \* deploySwarm: argument, force a rebuild
    kind,       \* local: role-derived service name
    workdir,    \* deploySwarm: local, the scratch directory name
    files,      \* deploySwarm: local, path -> content
    deferred,   \* deploySwarm: the deferred calls, arguments already evaluated
    boot,       \* checkSwarmNode: argument
    infos,      \* checkSwarmNode: result of inspectContainer
    loc,        \* checkSwarmNode: locals (totalPeers, id, genesis, keyJSON, keyPass)
    ret,        \* the values returned once pc = "done"
    host,       \* the remote host: its containers by name, when they are known
    wiz,        \* wizard.deploySwarm: its arguments, inputs and locals
    inv,        \* two concurrent calls of deploySwarm: the locals of each
    remote      \* two concurrent calls of deploySwarm: the files on their host

vars == <<pc, log, network, swarmboot, config, nocache, kind, workdir, files,
          deferred, boot, infos, loc, ret, host, wiz, inv, remote>>

----------------------------------------------------------------------------
(* Bounds of the model *)

\* longest bootstrap-peer list handed to deploySwarm
MaxBoot == 2

----------------------------------------------------------------------------
(* Text helpers *)

Digits == <<"0", "1", "2", "3", "4", "5", "6", "7", "8", "9">>

\* fmt %d / template printing of a non-negative integer: its decimal digits
RECURSIVE Itoa(_)
Itoa(n) == IF n < 10 THEN <<Digits[n + 1]>>
           ELSE Itoa(n \div 10) \o <<Digits[(n % 10) + 1]>>

IsDigit(c) == \E d \in 1..10 : Digits[d] = c

DigitVal(c) == (CHOOSE d \in 1..10 : Digits[d] = c) - 1

RECURSIVE DigitsVal(_)
DigitsVal(s) == IF s = <<>> THEN 0
                ELSE 10 * DigitsVal(SubSeq(s, 1, Len(s) - 1)) + DigitVal(s[Len(s)])

\* strconv.Atoi with the error dropped: the value, or 0 when s is no number
Atoi(s) ==
    LET body == IF s # <<>> /\ s[1] \in {"+", "-"} THEN Tail(s) ELSE s
    IN  IF body = <<>> \/ \E i \in 1..Len(body) : ~IsDigit(body[i]) THEN 0
        ELSE IF s[1] = "-" THEN 0 - DigitsVal(body)
        ELSE DigitsVal(body)

\* strings.Join(list, sep)
RECURSIVE Join(_, _)
Join(list, sep) ==
    IF list = <<>> THEN <<>>
    ELSE IF Len(list) = 1 THEN list[1]
    ELSE list[1] \o sep \o Join(Tail(list), sep)

IsSpace(c) == c \in {" ", "\n", "\t", "\r"}

\* strip the leading tokens satisfying the cutset
RECURSIVE TrimLeft(_, _)
TrimLeft(s, cut) == IF s # <<>> /\ s[1] \in cut THEN TrimLeft(Tail(s), cut) ELSE s

RECURSIVE TrimRight(_, _)
TrimRight(s, cut) ==
    IF s # <<>> /\ s[Len(s)] \in cut THEN TrimRight(SubSeq(s, 1, Len(s) - 1), cut) ELSE s

\* bytes.TrimSpace
TrimSpace(s) == TrimRight(TrimLeft(s, {" ", "\n", "\t", "\r"}), {" ", "\n", "\t", "\r"})

\* bytes.Trim(s, "\"")
TrimQuote(s) == TrimRight(TrimLeft(s, {"\""}), {"\""})

\* filepath.Join(dir, name) for two clean, non-empty elements
PathJoin(dir, name) == dir \o <<"/">> \o <<name>>

\* the directory part of a path built by PathJoin
PathDir(p) == SubSeq(p, 1, Len(p) - 2)

\* a Go map read: the zero value when the key is absent
MapStr(m, k) == IF k \in DOMAIN m THEN m[k] ELSE <<>>

MapInt(m, k) == IF k \in DOMAIN m THEN m[k] ELSE 0

\* does token t occur in text s
Contains(s, t) == \E i \in 1..Len(s) : s[i] = t

\* position of the first occurrence of token t in text s, 0 when there is none
IndexOf(s, t) ==
    IF \E i \in 1..Len(s) : s[i] = t
    THEN CHOOSE i \in 1..Len(s) : s[i] = t /\ \A j \in 1..(i - 1) : s[j] # t
    ELSE 0

----------------------------------------------------------------------------
(* text/template *)

Lit(s) == [t |-> "lit", k |-> "", s |-> s, body |-> <<>>]

Field(k) == [t |-> "field", k |-> k, s |-> "", body |-> <<>>]

If(k, body) == [t |-> "if", k |-> k, s |-> "", body |-> body]

\* {{.Key}} on a map: the printed value, "<no value>" for a missing key
TemplateField(data, k) == IF k \in DOMAIN data THEN data[k] ELSE <<"<no value>">>

\* {{if .Key}}: a missing key and the empty string are false
TemplateTruth(data, k) == k \in DOMAIN data /\ data[k] # <<>>

RECURSIVE Execute(_, _)
Execute(tmpl, data) ==
    IF Len(tmpl) = 0 THEN <<>>
    ELSE LET e == Head(tmpl)
             out == CASE e.t = "lit"   -> <<e.s>>
                      [] e.t = "field" -> TemplateField(data, e.k)
                      [] e.t = "if"    -> IF TemplateTruth(data, e.k)
                                          THEN Execute(e.body, data) ELSE <<>>
         IN  out \o Execute(Tail(tmpl), data)

swarmDockerfile == <<
    Lit("\nFROM ethereum/client-go:alltools-v1.8.3\n\n"),
    Lit("ADD genesis.json /genesis.json\n"),
    Lit("ADD bzzkey.json /bzzkey.json\n"),
    Lit("ADD bzzpass /bzzpass\n"),
    Lit("\nRUN \\\n\techo 'mkdir -p /root/.ethereum/keystore/ && cp /bzzkey.json /root/.ethereum/keystore/' > geth.sh && \\\n\techo $'swarm --bzznetworkid "),
    Field("NetworkID"),
    Lit(" "),
    If("BzzAccount", <<Lit("--bzzaccount "), Field("BzzAccount"), Lit(" ")>>),
    Lit("--port "),
    Field("Port"),
    Lit(" --bzzport "),
    Field("bzzPort"),
    Lit(" --maxpeers "),
    Field("Peers"),
    Lit(" "),
    If("SwarmBoot", <<Lit("--bootnodes "), Field("SwarmBoot")>>),
    Lit(" --password /bzzpass"),
    Lit("' >> geth.sh\n\nENTRYPOINT [\"/bin/sh\", \"geth.sh\"]\n") >>

swarmComposefile == <<
    Lit("\nversion: '2'\nservices:\n  "),
    Field("Type"),
    Lit(":\n    build: .\n    image: "),
    Field("Network"),
    Lit("/"),
    Field("Type"),
    Lit("\n    ports:\n"),
    Lit("      - \""), Field("Port"), Lit(":"), Field("Port"), Lit("\"\n"),
    Lit("      - \""), Field("Port"), Lit(":"), Field("Port"), Lit("/udp"), Lit("\"\n"),
    Lit("    volumes:\n"),
    Lit("      - "), Field("Datadir"), Lit(":"), Lit("/root/.ethereum"), Lit("\n"),
    Lit("    environment:\n"),
    Lit("      - "), Lit("PORT"), Lit("="), Field("bzzPort"), Lit("/tcp"), Lit("\n"),
    Lit("    logging:\n      driver: \"json-file\"\n      options:\n        max-size: \"1m\"\n        max-file: \"10\"\n    restart: always\n") >>

----------------------------------------------------------------------------
(* docker-compose and docker: what a composition descriptor declares *)

\* the tokens after position i up to the next token of stop
TokensBetween(c, i, stop) ==
    LET ends == {j \in (i + 1)..Len(c) : c[j] \in stop}
        j    == IF ends = {} THEN Len(c) + 1
                ELSE CHOOSE e \in ends : \A f \in ends : e <= f
    IN  SubSeq(c, i + 1, j - 1)

\* the name of the declared service
ComposeService(c) == TokensBetween(c, 1, {":\n    build: .\n    image: "})

\* the quoted items of the ports section, "host:container[/proto]"
ComposePortEntries(c) ==
    { TokensBetween(c, i, {"\"\n"}) : i \in {k \in 1..Len(c) : c[k] = "      - \""} }

\* the section an item at position i belongs to
ComposeSection(c, i) ==
    LET heads == {j \in 1..(i - 1) : c[j] \in {"    volumes:\n", "    environment:\n"}}
    IN  IF heads = {} THEN "" ELSE c[CHOOSE h \in heads : \A g \in heads : g <= h]

\* the unquoted items of a section
ComposeItems(c, head) ==
    { TokensBetween(c, i, {"\n"}) :
        i \in {k \in 1..Len(c) : c[k] = "      - " /\ ComposeSection(c, k) = head} }

\* a port item split at its colon, the protocol defaulting to tcp
PortEntry(e) ==
    LET colon == IndexOf(e, ":")
        udp   == e # <<>> /\ e[Len(e)] = "/udp"
    IN  [host      |-> SubSeq(e, 1, colon - 1),
         container |-> SubSeq(e, colon + 1, IF udp THEN Len(e) - 1 ELSE Len(e)),
         proto     |-> IF udp THEN "/udp" ELSE "/tcp"]

\* the service publishes container port p (as text) on the same host port
Publishes(c, p, proto) ==
    \E e \in ComposePortEntries(c) :
        PortEntry(e) = [host |-> p, container |-> p, proto |-> proto]

\* NetworkSettings.Ports of the running container: "port/proto" -> host port
ComposePortMap(c) ==
    LET es == {PortEntry(e) : e \in ComposePortEntries(c)}
        ks == {e.container \o <<e.proto>> : e \in es}
    IN  [k \in ks |-> Atoi((CHOOSE e \in es : e.container \o <<e.proto>> = k).host)]

\* the environment of the running container: KEY -> value
ComposeEnv(c) ==
    LET es == ComposeItems(c, "    environment:\n")
    IN  [k \in {e[1] : e \in es} |->
            LET e == CHOOSE x \in es : x[1] = k IN SubSeq(e, 3, Len(e))]

\* the bind mounts of the running container: container path -> host path
ComposeVolumes(c) ==
    LET es == ComposeItems(c, "    volumes:\n")
    IN  [k \in {e[Len(e)] : e \in es} |->
            LET e == CHOOSE x \in es : x[Len(x)] = k IN SubSeq(e, 1, IndexOf(e, ":") - 1)]

\* the files a build recipe takes from its directory, by ADD line
AddSource ==
    [l \in {"ADD genesis.json /genesis.json\n", "ADD bzzkey.json /bzzkey.json\n",
            "ADD bzzpass /bzzpass\n"} |->
        CASE l = "ADD genesis.json /genesis.json\n" -> "genesis.json"
          [] l = "ADD bzzkey.json /bzzkey.json\n"   -> "bzzkey.json"
          [] l = "ADD bzzpass /bzzpass\n"           -> "bzzpass"]

ReferencedFiles(r) == {AddSource[r[i]] : i \in {k \in 1..Len(r) : r[k] \in DOMAIN AddSource}}

\* where an ADD line puts the file in the image
AddTarget ==
    [n \in {"genesis.json", "bzzkey.json", "bzzpass"} |->
        CASE n = "genesis.json" -> "/genesis.json"
          [] n = "bzzkey.json"  -> "/bzzkey.json"
          [] n = "bzzpass"      -> "/bzzpass"]

\* the files of an image built from recipe r in directory dir holding fs
ImageFiles(r, fs, dir) ==
    LET ns == {n \in ReferencedFiles(r) : (dir \o <<"/", n>>) \in DOMAIN fs}
    IN  [t \in {AddTarget[n] : n \in ns} |->
            fs[dir \o <<"/", CHOOSE n \in ns : AddTarget[n] = t>>]]

\* the identity of the node that runs on the host's data directory
NodeId == <<"a1b2">>

\* the container docker-compose creates for the one service of a descriptor
\* run under the project name given with -p
ComposeContainer(project, c) == project \o <<"_">> \o ComposeService(c) \o <<"_1">>

\* the container docker-compose up -d --build --force-recreate leaves running
\* for the descriptor and recipe in directory dir
Built(fs, dir) ==
    LET c == fs[dir \o <<"/", "docker-compose.yaml">>]
        r == fs[dir \o <<"/", "Dockerfile">>]
    IN  [running |-> TRUE, envvars |-> ComposeEnv(c), portmap |-> ComposePortMap(c),
         volumes |-> ComposeVolumes(c), id |-> NodeId, files |-> ImageFiles(r, fs, dir)]

\* the host after a build in directory dir under a project name: the
\* service's container is replaced when the build succeeded
Up(h, project, fs, dir, ok) ==
    IF ~h.known \/ ~ok THEN h
    ELSE LET name == ComposeContainer(project, fs[dir \o <<"/", "docker-compose.yaml">>])
         IN  [h EXCEPT !.containers =
                 [n \in DOMAIN h.containers \cup {name} |->
                     IF n = name THEN Built(fs, dir) ELSE h.containers[n]]]

----------------------------------------------------------------------------
(* Values *)

\* a nil []byte, and a []byte holding text
NilBytes == [nil |-> TRUE, bytes |-> <<>>]

Bytes(s) == [nil |-> FALSE, bytes |-> s]

\* a nil *swarmInfos
NilInfos == [nil |-> TRUE]

\* error kinds
ErrNil == "nil"

ErrServiceOffline == "ServiceOffline"

ErrServiceUnreachable == "Unreachable"

\* the inspector's "no such container" and its other execution failures
ErrNotFound == "NotFound"

InspectErrors == {ErrNotFound, ErrServiceUnreachable}

\* errors the channel's Upload, Stream and Run may report
UploadErrors == {"upload: exit status 1", "upload: connection lost"}

ErrStream == "stream: exit status 1"

ErrRun == "run: exit status 1"

\* one operation issued on the remote command channel, with what it reported
Op(op, cmd, fs, err, out) ==
    [op |-> op, cmd |-> cmd, files |-> fs, ok |-> err = ErrNil, err |-> err, out |-> out]

\* client.address
ClientAddress == <<"203.0.113.7">>

----------------------------------------------------------------------------
(* deploySwarm *)

\* the role-derived service name
DeployKind(cfg) == IF cfg.swarmenode = <<>> THEN "swarmboot" ELSE "swarmnode"

\* the supplied list kept whatever the role
DeployBootKeep(cfg, sb) == sb

\* the supplied list dropped whatever the role
DeployBootDrop(cfg, sb) == <<>>

\* the bootstrap-peer list after the role decision
DeployBoot(cfg, sb) == IF cfg.swarmenode = <<>> THEN <<>> ELSE sb

DockerfileData(cfg, sb) ==
    [NetworkID  |-> Itoa(cfg.network),
     Port       |-> Itoa(cfg.port),
     Peers      |-> Itoa(cfg.peersTotal),
     bzzPort    |-> Itoa(cfg.bzzPort),
     SwarmBoot  |-> Join(sb, <<",">>),
     Unlock     |-> IF cfg.keyJSON # <<>> THEN <<"true">> ELSE <<"false">>,
     BzzAccount |-> cfg.bzzAccount]

ComposeData(cfg, k, net) ==
    [Type       |-> <<k>>,
     Datadir    |-> cfg.datadir,
     Network    |-> net,
     Port       |-> Itoa(cfg.port),
     TotalPeers |-> Itoa(cfg.peersTotal),
     BzzAccount |-> cfg.bzzAccount]

\* a recipe that hands the passphrase itself to --password
RenderDockerfileInlinePass(cfg, sb) ==
    LET r == Execute(swarmDockerfile, DockerfileData(cfg, DeployBoot(cfg, sb)))
        i == IndexOf(r, " --password /bzzpass")
    IN  SubSeq(r, 1, i) \o <<" --password ">> \o cfg.keyPass \o SubSeq(r, i + 1, Len(r))

RenderDockerfile(cfg, sb) == Execute(swarmDockerfile, DockerfileData(cfg, DeployBoot(cfg, sb)))

RenderComposefile(cfg, net) == Execute(swarmComposefile, ComposeData(cfg, DeployKind(cfg), net))

\* the artifact set: path -> content
RenderFiles(dir, net, sb, cfg) ==
    LET base == {"Dockerfile", "docker-compose.yaml", "genesis.json"}
        cred == IF cfg.keyJSON # <<>> THEN {"bzzkey.json", "bzzpass"} ELSE {}
        content(n) == CASE n = "Dockerfile"          -> RenderDockerfile(cfg, sb)
                        [] n = "docker-compose.yaml" -> RenderComposefile(cfg, net)
                        [] n = "genesis.json"        -> cfg.genesis
                        [] n = "bzzkey.json"         -> cfg.keyJSON
                        [] n = "bzzpass"             -> cfg.keyPass
        paths == {PathJoin(dir, n) : n \in base \cup cred}
    IN  [p \in paths |-> content(p[Len(p)])]

\* a removal of everything in the home directory
RemoveCommandEverything(dir) == <<"rm -rf ">> \o <<"*">>

\* the deferred removal of the scratch directory
RemoveCommand(dir) == <<"rm -rf ">> \o dir

\* the two build commands taken for one another
BuildCommandSwapped(dir, net, nc) ==
    IF ~nc
    THEN <<"cd ">> \o dir \o <<" && docker-compose -p ">> \o net
         \o <<" build --pull --no-cache && docker-compose -p ">> \o net
         \o <<" up -d --force-recreate">>
    ELSE <<"cd ">> \o dir \o <<" && docker-compose -p ">> \o net
         \o <<" up -d --build --force-recreate">>

\* the streamed build-and-restart command
BuildCommand(dir, net, nc) ==
    IF nc
    THEN <<"cd ">> \o dir \o <<" && docker-compose -p ">> \o net
         \o <<" build --pull --no-cache && docker-compose -p ">> \o net
         \o <<" up -d --force-recreate">>
    ELSE <<"cd ">> \o dir \o <<" && docker-compose -p ">> \o net
         \o <<" up -d --build --force-recreate">>

\* the deferred calls run on return, last registered first, with the
\* arguments they were registered with
RunDeferred(d, err) ==
    [i \in 1..Len(d) |-> Op("Run", d[Len(d) + 1 - i], <<>>, err, NilBytes)]

\* values rand.Int63 may draw for the scratch directory name
RandInt63 == {7, 4096}

\* what a failed Upload may report as output
UploadOutputs == {NilBytes, Bytes(<<"scp: permission denied">>)}

\* the zero value of the returned triple
NoResult == [out |-> NilBytes, err |-> ErrNil, infos |-> NilInfos]

\* a removal registered before the upload's error is looked at
UploadStepDeferFirst(err, out, dir, d) ==
    IF err # ErrNil
    THEN [pc |-> "deferred", deferred |-> Append(d, RemoveCommand(dir)),
          ret |-> [out |-> out, err |-> err, infos |-> NilInfos]]
    ELSE [pc |-> "stream", deferred |-> Append(d, RemoveCommand(dir)), ret |-> NoResult]

\* lines 247-250: return at once when the upload failed, else register the
\* removal of the scratch directory and go on
UploadStep(err, out, dir, d) ==
    IF err # ErrNil
    THEN [pc |-> "done", deferred |-> d,
          ret |-> [out |-> out, err |-> err, infos |-> NilInfos]]
    ELSE [pc |-> "stream", deferred |-> Append(d, RemoveCommand(dir)), ret |-> NoResult]

\* the stream's error dropped
StreamResultSwallowed(err) == [out |-> NilBytes, err |-> ErrNil, infos |-> NilInfos]

\* lines 254/256: nil output and the stream's error
StreamResult(err) == [out |-> NilBytes, err |-> err, infos |-> NilInfos]

\* lines 207-245: decide the role, name the scratch directory, render
DeployRender ==
    /\ pc = "deploy"
    /\ kind' = DeployKind(config)
    /\ \E r \in RandInt63 :
        /\ workdir' = Itoa(r)
        /\ files' = RenderFiles(Itoa(r), network, swarmboot, config)
    /\ pc' = "upload"
    /\ UNCHANGED <<log, network, swarmboot, config, nocache, deferred, boot, infos, loc, ret>>
    /\ UNCHANGED <<host, wiz, inv, remote>>

\* lines 247-250: client.Upload(files)
DeployUpload ==
    /\ pc = "upload"
    /\ \E err \in UploadErrors \cup {ErrNil}, out \in UploadOutputs :
        /\ err = ErrNil => out = NilBytes
        /\ log' = Append(log, Op("Upload", <<>>, files, err, out))
        /\ LET step == UploadStep(err, out, workdir, deferred)
           IN  /\ pc' = step.pc
               /\ deferred' = step.deferred
               /\ ret' = step.ret
    /\ UNCHANGED <<network, swarmboot, config, nocache, kind, workdir, files,
                   boot, infos, loc>>
    /\ UNCHANGED <<host, wiz, inv, remote>>

\* a removal that is skipped when the stream fails
DeployStreamNoCleanupOnError ==
    /\ pc = "stream"
    /\ \E err \in {ErrNil, ErrStream} :
        /\ log' = Append(log, Op("Stream", BuildCommand(workdir, network, nocache), <<>>,
                                 err, NilBytes))
        /\ ret' = StreamResult(err)
        /\ pc' = IF err = ErrNil THEN "deferred" ELSE "done"
    /\ UNCHANGED <<network, swarmboot, config, nocache, kind, workdir, files, deferred,
                   boot, infos, loc>>
    /\ UNCHANGED <<host, wiz, inv, remote>>

\* lines 253-256: client.Stream(...), its error is the value returned
DeployStream ==
    /\ pc = "stream"
    /\ \E err \in {ErrNil, ErrStream} :
        /\ log' = Append(log, Op("Stream", BuildCommand(workdir, network, nocache), <<>>,
                                 err, NilBytes))
        /\ ret' = StreamResult(err)
        /\ host' = Up(host, network, files, workdir, err = ErrNil)
    /\ pc' = "deferred"
    /\ UNCHANGED <<network, swarmboot, config, nocache, kind, workdir, files, deferred,
                   boot, infos, loc>>
    /\ UNCHANGED <<wiz, inv, remote>>

\* line 250: the deferred client.Run on return; its output and error are dropped
DeployDeferred ==
    /\ pc = "deferred"
    /\ \E err \in {ErrNil, ErrRun} : log' = log \o RunDeferred(deferred, err)
    /\ deferred' = <<>>
    /\ pc' = "done"
    /\ UNCHANGED <<network, swarmboot, config, nocache, kind, workdir, files,
                   boot, infos, loc, ret>>
    /\ UNCHANGED <<host, wiz, inv, remote>>

----------------------------------------------------------------------------
(* inspectContainer: the outcomes the status checker can be handed *)

EnvKeys == {"TOTAL_PEERS", "PORT", "BZZ_NAME"}

EnvValues ==
    [TOTAL_PEERS |-> {<<"5", "0">>, <<"x">>},
     PORT        |-> {<<"3", "0", "3", "0", "3">>, <<"<no value>", "/tcp">>},
     BZZ_NAME    |-> {<<"0xACC">>}]

EnvVars ==
    UNION { {e \in [K -> UNION {EnvValues[k] : k \in EnvKeys}] :
                \A k \in K : e[k] \in EnvValues[k]} : K \in SUBSET EnvKeys }

\* declared container port -> externally bound host port
PortMaps ==
    { <<>>,
      [p \in {<<"3", "0", "3", "0", "3">>} |-> 31000],
      [p \in {<<"3", "0", "3", "0", "3">>, <<"8", "5", "0", "0">>} |->
          IF p = <<"8", "5", "0", "0">> THEN 8500 ELSE 31000] }

Volumes == { <<>>, [p \in {"/root/.ethereum"} |-> <<"/data/swarm">>] }

ContainerInfos ==
    [running : BOOLEAN, envvars : EnvVars, portmap : PortMaps, volumes : Volumes]

NoContainer == [running |-> FALSE, envvars |-> <<>>, portmap |-> <<>>, volumes |-> <<>>]

\* (infos, err) as inspectContainer returns it
InspectResults ==
    {[infos |-> i, err |-> ErrNil] : i \in ContainerInfos}
    \cup {[infos |-> NoContainer, err |-> e] : e \in InspectErrors}

\* a host whose containers are not known: any answer may come back
HostUnknown == [known |-> FALSE, containers |-> <<>>]

\* what docker inspect shows of a container of the host
Inspected(c) ==
    [running |-> c.running, envvars |-> c.envvars, portmap |-> c.portmap,
     volumes |-> c.volumes]

\* the answers inspectContainer may give for the container called name
InspectOutcomes(h, name) ==
    IF ~h.known THEN InspectResults
    ELSE IF name \in DOMAIN h.containers
    THEN {[infos |-> Inspected(h.containers[name]), err |-> ErrNil],
          [infos |-> NoContainer, err |-> ErrServiceUnreachable]}
    ELSE {[infos |-> NoContainer, err |-> e] : e \in InspectErrors}

\* the outcomes of cat <path> in the container called name: the file with
\* a newline after it, or a failure; no success when the file is not there
CatOutcomes(h, name, path, any) ==
    {[ok |-> FALSE, out |-> <<>>]} \cup
    IF ~h.known THEN {[ok |-> TRUE, out |-> o] : o \in any}
    ELSE IF name \in DOMAIN h.containers /\ path \in DOMAIN h.containers[name].files
    THEN {[ok |-> TRUE, out |-> h.containers[name].files[path] \o <<"\n">>]}
    ELSE {}

\* the outcomes of asking the node in the container called name for its
\* identity: the identity as a quoted string on a line, or a failure
IdOutcomes(h, name, any) ==
    {[ok |-> FALSE, out |-> <<>>]} \cup
    IF ~h.known THEN {[ok |-> TRUE, out |-> o] : o \in any}
    ELSE IF name \in DOMAIN h.containers
    THEN {[ok |-> TRUE, out |-> <<"\"">> \o h.containers[name].id \o <<"\"", "\n">>]}
    ELSE {}

----------------------------------------------------------------------------
(* checkSwarmNode *)

\* lines 303-306
CheckKind(b) == IF b THEN "bootswarm" ELSE "swarmnode"

\* fmt.Sprintf("%s_%s_1", network, kind)
ContainerName(net, k) == net \o <<"_", k, "_1">>

\* fmt.Sprintf("docker exec %s_%s_1 <what>", network, kind)
ExecCommand(net, k, what) == <<"docker exec ">> \o ContainerName(net, k) \o <<what>>

\* every inspector failure reported as an offline service
InspectStepOffline(r) ==
    IF r.err # ErrNil \/ ~r.infos.running
    THEN [pc |-> "done", ret |-> [out |-> NilBytes, err |-> ErrServiceOffline, infos |-> NilInfos]]
    ELSE [pc |-> "id", ret |-> NoResult]

\* lines 309-314: what the checker does with the inspector's answer
InspectStep(r) ==
    IF r.err # ErrNil
    THEN [pc |-> "done", ret |-> [out |-> NilBytes, err |-> r.err, infos |-> NilInfos]]
    ELSE IF ~r.infos.running
    THEN [pc |-> "done", ret |-> [out |-> NilBytes, err |-> ErrServiceOffline, infos |-> NilInfos]]
    ELSE [pc |-> "id", ret |-> NoResult]

\* line 315
TotalPeers(i) == Atoi(MapStr(i.envvars, "TOTAL_PEERS"))

\* lines 319-321: the node identity query
IdStep(ok) ==
    IF ~ok
    THEN [pc |-> "done", ret |-> [out |-> NilBytes, err |-> ErrServiceUnreachable, infos |-> NilInfos]]
    ELSE [pc |-> "genesis", ret |-> NoResult]

\* a genesis read-back whose failure is tolerated
GenesisStepTolerant(ok) == [pc |-> "key", ret |-> NoResult]

\* lines 325-327: the genesis read-back
GenesisStep(ok) ==
    IF ~ok
    THEN [pc |-> "done", ret |-> [out |-> NilBytes, err |-> ErrServiceUnreachable, infos |-> NilInfos]]
    ELSE [pc |-> "key", ret |-> NoResult]

\* an optional file whose read error is fatal
OptionalFatal(ok) ==
    IF ~ok
    THEN [stop |-> TRUE, ret |-> [out |-> NilBytes, err |-> ErrServiceUnreachable, infos |-> NilInfos]]
    ELSE [stop |-> FALSE, ret |-> NoResult]

\* lines 331/334: a failed optional read does not end the check
OptionalStep(ok) == [stop |-> FALSE, ret |-> NoResult]

\* lines 331-336: an optional file, empty when it cannot be read
OptionalRead(ok, out) == IF ok THEN TrimSpace(out) ELSE <<>>

\* the port looked up under the declared listen port 30303 instead of $PORT
LookupPortFixed(i) == MapInt(i.portmap, <<"3", "0", "3", "0", "3">>)

\* line 338
LookupPort(i) == MapInt(i.portmap, MapStr(i.envvars, "PORT"))

\* lines 349-359
Assemble(i, l, port) ==
    [nil        |-> FALSE,
     genesis    |-> l.genesis,
     network    |-> 0,
     datadir    |-> MapStr(i.volumes, "/root/.ethereum"),
     peersTotal |-> l.totalPeers,
     port       |-> port,
     bzzPort    |-> 0,
     enode      |-> <<>>,
     swarmenode |-> <<"enode://">> \o l.id \o <<"@">> \o ClientAddress \o <<":">> \o Itoa(port),
     bzzAccount |-> MapStr(i.envvars, "BZZ_NAME"),
     keyJSON    |-> l.keyJSON,
     keyPass    |-> l.keyPass]

NoLocals == [totalPeers |-> 0, id |-> <<>>, genesis |-> <<>>, keyJSON |-> <<>>, keyPass |-> <<>>]

\* what the remote commands of a check may print
IdOutputs == { <<"\"", "a1b2", "\"", "\n">>, <<"a1b2">> }

GenesisOutputs == { <<"{genesis}", "\n">> }

KeyOutputs == { <<"{key}", "\n">> }

PassOutputs == { <<"secret", "\n">>, <<"\n">> }

\* lines 303-315: inspect the container
CheckInspect ==
    /\ pc = "check"
    /\ kind' = CheckKind(boot)
    /\ \E r \in InspectOutcomes(host, ContainerName(network, CheckKind(boot))) :
        /\ log' = Append(log, Op("Inspect", ContainerName(network, CheckKind(boot)), <<>>,
                                 r.err, NilBytes))
        /\ infos' = r.infos
        /\ LET step == InspectStep(r)
           IN  /\ pc' = step.pc
               /\ ret' = step.ret
               /\ loc' = IF step.pc = "done" THEN loc
                         ELSE [loc EXCEPT !.totalPeers = TotalPeers(r.infos)]
    /\ UNCHANGED <<network, swarmboot, config, nocache, workdir, files, deferred, boot>>
    /\ UNCHANGED <<host, wiz, inv, remote>>

\* lines 319-323: ask the node for its identity
CheckNodeID ==
    /\ pc = "id"
    /\ \E o \in IdOutcomes(host, ContainerName(network, kind), IdOutputs) :
        /\ log' = Append(log, Op("Run", ExecCommand(network, kind,
                        " geth --exec admin.nodeInfo.id attach /root/.ethereum/bzzd.ipc"),
                        <<>>, IF o.ok THEN ErrNil ELSE ErrRun, IF o.ok THEN Bytes(o.out) ELSE NilBytes))
        /\ LET step == IdStep(o.ok)
           IN  /\ pc' = step.pc
               /\ ret' = step.ret
               /\ loc' = IF step.pc = "done" THEN loc
                         ELSE [loc EXCEPT !.id = TrimQuote(TrimSpace(o.out))]
    /\ UNCHANGED <<network, swarmboot, config, nocache, kind, workdir, files, deferred,
                   boot, infos>>
    /\ UNCHANGED <<host, wiz, inv, remote>>

\* lines 325-328: read the genesis back
CheckGenesis ==
    /\ pc = "genesis"
    /\ \E o \in CatOutcomes(host, ContainerName(network, kind), "/genesis.json", GenesisOutputs) :
        /\ log' = Append(log, Op("Run", ExecCommand(network, kind, " cat /genesis.json"),
                                 <<>>, IF o.ok THEN ErrNil ELSE ErrRun, IF o.ok THEN Bytes(o.out) ELSE NilBytes))
        /\ LET step == GenesisStep(o.ok)
           IN  /\ pc' = step.pc
               /\ ret' = step.ret
               /\ loc' = IF step.pc = "done" THEN loc
                         ELSE [loc EXCEPT !.genesis = TrimSpace(o.out)]
    /\ UNCHANGED <<network, swarmboot, config, nocache, kind, workdir, files, deferred,
                   boot, infos>>
    /\ UNCHANGED <<host, wiz, inv, remote>>

\* lines 330-333: the key file, if any
CheckKey ==
    /\ pc = "key"
    /\ \E o \in CatOutcomes(host, ContainerName(network, kind), "/bzzkey.json", KeyOutputs) :
        /\ log' = Append(log, Op("Run", ExecCommand(network, kind, " cat /bzzkey.json"),
                                 <<>>, IF o.ok THEN ErrNil ELSE ErrRun, IF o.ok THEN Bytes(o.out) ELSE NilBytes))
        /\ loc' = [loc EXCEPT !.keyJSON = OptionalRead(o.ok, o.out)]
        /\ pc' = IF OptionalStep(o.ok).stop THEN "done" ELSE "pass"
        /\ ret' = OptionalStep(o.ok).ret
    /\ UNCHANGED <<network, swarmboot, config, nocache, kind, workdir, files, deferred,
                   boot, infos>>
    /\ UNCHANGED <<host, wiz, inv, remote>>

\* lines 334-336: the passphrase file, if any
CheckPass ==
    /\ pc = "pass"
    /\ \E o \in CatOutcomes(host, ContainerName(network, kind), "/bzzpass", PassOutputs) :
        /\ log' = Append(log, Op("Run", ExecCommand(network, kind, " cat /bzzpass"),
                                 <<>>, IF o.ok THEN ErrNil ELSE ErrRun, IF o.ok THEN Bytes(o.out) ELSE NilBytes))
        /\ loc' = [loc EXCEPT !.keyPass = OptionalRead(o.ok, o.out)]
        /\ pc' = IF OptionalStep(o.ok).stop THEN "done" ELSE "probe"
        /\ ret' = OptionalStep(o.ok).ret
    /\ UNCHANGED <<network, swarmboot, config, nocache, kind, workdir, files, deferred,
                   boot, infos>>
    /\ UNCHANGED <<host, wiz, inv, remote>>

\* lines 338-361: probe the port, assemble the snapshot, return it
CheckProbe ==
    /\ pc = "probe"
    /\ \E ok \in BOOLEAN :
        log' = Append(log, Op("checkPort", Itoa(LookupPort(infos)), <<>>,
                              IF ok THEN ErrNil ELSE "dial tcp: timeout", NilBytes))
    /\ ret' = [out |-> NilBytes, err |-> ErrNil,
               infos |-> Assemble(infos, loc, LookupPort(infos))]
    /\ pc' = "done"
    /\ UNCHANGED <<network, swarmboot, config, nocache, kind, workdir, files, deferred,
                   boot, infos, loc>>
    /\ UNCHANGED <<host, wiz, inv, remote>>

----------------------------------------------------------------------------
(* The calls made *)

Networks == { <<"tokamak">>, <<"testnet">> }

Peers == { <<"enode://aa@10.0.0.1:30303">>, <<"enode://bb@10.0.0.2:30303">>, <<>> }

BootLists == UNION { [1..n -> Peers] : n \in 0..MaxBoot }

Credentials == { [keyJSON |-> <<>>, keyPass |-> <<>>],
                 [keyJSON |-> <<"{key}">>, keyPass |-> <<"secret">>] }

\* a prior node identity, when there is one
NodeIdentities == { <<>>, <<"enode://", "a1b2", "@", "203.0.113.7", ":", "3", "0", "3", "9", "9">> }

Configs ==
    { [nil        |-> FALSE,
       genesis    |-> <<"{genesis}">>,
       network    |-> 1337,
       datadir    |-> <<"/data/swarm">>,
       peersTotal |-> 50,
       port       |-> p,
       bzzPort    |-> 8500,
       enode      |-> <<>>,
       swarmenode |-> e,
       bzzAccount |-> a,
       keyJSON    |-> c.keyJSON,
       keyPass    |-> c.keyPass] :
      p \in {30399, 30303}, e \in NodeIdentities, a \in {<<>>, <<"0xACC">>}, c \in Credentials }

ZeroConfig ==
    [nil |-> FALSE, genesis |-> <<>>, network |-> 0, datadir |-> <<>>, peersTotal |-> 0,
     port |-> 0, bzzPort |-> 0, enode |-> <<>>, swarmenode |-> <<>>, bzzAccount |-> <<>>,
     keyJSON |-> <<>>, keyPass |-> <<>>]

----------------------------------------------------------------------------
(* wizard.deploySwarm: check, merge with the operator's answers, deploy *)

\* how many times in a row the operator runs the wizard
MaxRuns == 2

\* line 48 and line 50: the configuration used when the check failed
DefaultPort == 30399

DefaultPeers == 50

DefaultBzzPort == 8500

DefaultInfos ==
    [ZeroConfig EXCEPT !.port = DefaultPort, !.peersTotal = DefaultPeers,
                       !.bzzPort = DefaultBzzPort]

\* lines 45-52: the snapshot of the check, or the defaults when it failed
Fallback(r) == IF r.err # ErrNil THEN DefaultInfos ELSE r.infos

\* a wizard that takes every check for a success
ExistedAlways(err) == TRUE

\* line 53
Existed(err) == err = ErrNil

\* readDefaultString, readDefaultInt, readDefaultAddress: an empty answer
\* takes the default
ReadDefault(accept, def, entered) == IF accept THEN def ELSE entered

\* common.HexToAddress(a).Hex(): the checksummed form of an address, the
\* zero address for text that is not one
HexToAddressHex(a) ==
    IF a \in {<<"0xACC">>, <<"0xacc">>} THEN <<"0xACC">> ELSE <<"0x000">>

\* keystore.DecryptKey succeeds with the passphrase the key was sealed with
DecryptKey(key, pass) == key = <<"{key}">> /\ pass = <<"secret">>

\* a merge that offers the fallback port instead of the snapshot's
MergeOffersFallbackPort(base, genesis, chain, op) ==
    [base EXCEPT
        !.genesis    = genesis,
        !.network    = chain,
        !.datadir    = IF @ = <<>> THEN op.datadir ELSE ReadDefault(op.accept, @, op.datadir),
        !.port       = ReadDefault(op.accept, DefaultPort, op.port),
        !.bzzPort    = ReadDefault(op.accept, @, op.bzzPort),
        !.peersTotal = ReadDefault(op.accept, @, op.peersTotal),
        !.keyJSON    = IF base.keyJSON = <<>> THEN op.keyJSON ELSE @,
        !.keyPass    = IF base.keyJSON = <<>> THEN op.keyPass ELSE @,
        !.bzzAccount = IF @ = <<>> THEN op.bzzAccount
                       ELSE ReadDefault(op.accept, HexToAddressHex(@), op.bzzAccount)]

\* lines 55-110: the configuration after the prompts, for an operator op
Merge(base, genesis, chain, op) ==
    [base EXCEPT
        !.genesis    = genesis,
        !.network    = chain,
        !.datadir    = IF @ = <<>> THEN op.datadir ELSE ReadDefault(op.accept, @, op.datadir),
        !.port       = ReadDefault(op.accept, @, op.port),
        !.bzzPort    = ReadDefault(op.accept, @, op.bzzPort),
        !.peersTotal = ReadDefault(op.accept, @, op.peersTotal),
        !.keyJSON    = IF base.keyJSON = <<>> THEN op.keyJSON ELSE @,
        !.keyPass    = IF base.keyJSON = <<>> THEN op.keyPass ELSE @,
        !.bzzAccount = IF @ = <<>> THEN op.bzzAccount
                       ELSE ReadDefault(op.accept, HexToAddressHex(@), op.bzzAccount)]

\* a wizard that logs the failure to decrypt and carries on
KeyStepCarriesOn(base, key, pass) == "deploy"

\* lines 83-96: fresh credentials that do not decrypt end the wizard
KeyStep(base, key, pass) ==
    IF base.keyJSON = <<>> /\ ~DecryptKey(key, pass) THEN "aborted" ELSE "deploy"

\* lines 113-118: the rebuild choice is offered only for an existing node
Rebuild(existed, answer) == existed /\ answer # "n"

\* what the operator wants, typed where no default is taken
Desired ==
    [datadir |-> <<"/data/swarm">>, port |-> 30303, bzzPort |-> 8501, peersTotal |-> 25,
     keyJSON |-> <<"{key}">>, bzzAccount |-> <<"0xACC">>]

Passphrases == { <<"secret">>, <<"wrong">> }

\* the genesis the wizard is configured with, as json.MarshalIndent writes it
WizardGenesis == { <<"{genesis}">>, <<"{genesis-2}">> }

ChainId == 1337

NoRun == [clean |-> FALSE]

\* every command of a status check succeeded; that the container is not
\* there is an answer
CleanCheck(l) ==
    \A i \in 1..Len(l) : l[i].ok \/ (i = 1 /\ l[i].err = ErrNotFound)

CleanDeploy(l) == Len(l) = 3 /\ \A i \in 1..Len(l) : l[i].ok

\* the artifact set without its scratch directory
Artifacts(fs, dir) ==
    [n \in {q[Len(q)] : q \in DOMAIN fs} |-> fs[dir \o <<"/", n>>]]

\* lines 44-118: the check has returned; merge, ask, and deploy or give up
WizardMerge ==
    /\ wiz.on /\ wiz.phase = "check" /\ pc = "done"
    /\ \E pass \in Passphrases, answer \in {"n", "y"} :
        LET base    == Fallback(ret)
            existed == Existed(ret.err)
            op      == Desired @@ [accept |-> wiz.accept, keyPass |-> pass]
            step    == KeyStep(base, op.keyJSON, op.keyPass)
        IN  /\ base.keyJSON # <<>> => pass = <<"secret">>
            /\ (wiz.accept \/ ~existed \/ step = "aborted") => answer = "n"
            /\ pc' = step
            /\ config' = IF step = "aborted" THEN config
                         ELSE Merge(base, wiz.genesis, wiz.chain, op)
            /\ nocache' = IF step = "aborted" THEN nocache ELSE Rebuild(existed, answer)
            /\ wiz' = [wiz EXCEPT !.phase = step, !.existed = existed, !.snap = ret,
                                  !.checklog = log,
                                  !.typed = IF base.keyJSON = <<>> THEN <<op.keyJSON, pass>>
                                            ELSE <<>>]
    /\ log' = <<>>
    /\ kind' = ""
    /\ infos' = NoContainer
    /\ loc' = NoLocals
    /\ ret' = NoResult
    /\ UNCHANGED <<network, swarmboot, workdir, files, deferred, boot, host, inv, remote>>

\* lines 119-130: deploySwarm has returned; the wizard returns
WizardReturn ==
    /\ wiz.on /\ wiz.phase = "deploy" /\ pc = "done"
    /\ wiz' = [wiz EXCEPT !.phase = "finished",
                          !.prev = [clean     |-> CleanCheck(wiz.checklog) /\ CleanDeploy(log),
                                    kind      |-> kind,
                                    config    |-> config,
                                    container |-> ComposeContainer(network,
                                                     files[workdir \o <<"/", "docker-compose.yaml">>]),
                                    artifacts |-> Artifacts(files, workdir)]]
    /\ pc' = "finished"
    /\ log' = <<>>
    /\ kind' = ""
    /\ workdir' = <<>>
    /\ files' = <<>>
    /\ ret' = NoResult
    /\ UNCHANGED <<network, swarmboot, config, nocache, deferred, boot, infos, loc, host,
                   inv, remote>>

\* line 29: the operator runs the wizard again after a clean deployment
WizardAgain ==
    /\ wiz.on /\ wiz.phase = "finished" /\ pc = "finished"
    /\ wiz.prev.clean
    /\ wiz.run < MaxRuns
    /\ wiz' = [wiz EXCEPT !.phase = "check", !.run = @ + 1, !.existed = FALSE,
                          !.snap = NoResult, !.checklog = <<>>, !.typed = <<>>]
    /\ pc' = "check"
    /\ config' = ZeroConfig
    /\ nocache' = FALSE
    /\ UNCHANGED <<log, network, swarmboot, kind, workdir, files, deferred, boot, infos,
                   loc, ret, host, inv, remote>>

\* a node deployed earlier by other means, as the status check expects it
Existing(account, fs) ==
    [running |-> TRUE,
     envvars |-> [k \in EnvKeys |->
                    CASE k = "TOTAL_PEERS" -> <<"5", "0">>
                      [] k = "PORT"        -> <<"3", "0", "3", "0", "3">>
                      [] k = "BZZ_NAME"    -> account],
     portmap |-> [p \in {<<"3", "0", "3", "0", "3">>} |-> 31000],
     volumes |-> [p \in {"/root/.ethereum"} |-> <<"/data/swarm">>],
     id      |-> NodeId,
     files   |-> fs]

ImageWithKey ==
    [t \in {"/genesis.json", "/bzzkey.json", "/bzzpass"} |->
        CASE t = "/genesis.json" -> <<"{genesis}">>
          [] t = "/bzzkey.json"  -> <<"{key}">>
          [] t = "/bzzpass"      -> <<"secret">>]

ImageWithoutKey == [t \in {"/genesis.json"} |-> <<"{genesis}">>]

\* the hosts the wizard may meet: no node yet, or one under the name name
Hosts(name) ==
    {[known |-> TRUE, containers |-> <<>>]} \cup
    {[known |-> TRUE, containers |-> [n \in {name} |-> c]] :
        c \in {Existing(<<"0xACC">>, ImageWithKey), Existing(<<"0xacc">>, ImageWithKey),
               Existing(<<"0xACC">>, ImageWithoutKey)}}

InitWizard ==
    /\ pc = "check"
    /\ network = <<"tokamak">>
    /\ swarmboot = << <<"enode://aa@10.0.0.1:30303">> >>
    /\ config = ZeroConfig
    /\ nocache = FALSE
    /\ boot \in BOOLEAN
    /\ host \in Hosts(ContainerName(network, CheckKind(boot)))
    /\ \E accept \in BOOLEAN, genesis \in WizardGenesis :
        wiz = [on |-> TRUE, phase |-> "check", run |-> 1, accept |-> accept,
               genesis |-> genesis, chain |-> ChainId, existed |-> FALSE,
               snap |-> NoResult, checklog |-> <<>>, typed |-> <<>>, prev |-> NoRun]

InitDeploy ==
    /\ pc = "deploy"
    /\ network \in Networks
    /\ swarmboot \in BootLists
    /\ config \in Configs
    /\ nocache \in BOOLEAN
    /\ boot = FALSE
    /\ host = HostUnknown
    /\ wiz = [on |-> FALSE]

InitCheck ==
    /\ pc = "check"
    /\ network \in Networks
    /\ swarmboot = <<>>
    /\ config = ZeroConfig
    /\ nocache = FALSE
    /\ boot \in BOOLEAN
    /\ host = HostUnknown
    /\ wiz = [on |-> FALSE]

Init ==
    /\ InitDeploy \/ InitCheck \/ InitWizard
    /\ log = <<>>
    /\ kind = ""
    /\ workdir = <<>>
    /\ files = <<>>
    /\ deferred = <<>>
    /\ infos = NoContainer
    /\ loc = NoLocals
    /\ ret = NoResult
    /\ inv = <<>>
    /\ remote = <<>>

Next ==
    \/ DeployRender
    \/ DeployUpload
    \/ DeployStream
    \/ DeployDeferred
    \/ CheckInspect
    \/ CheckNodeID
    \/ CheckGenesis
    \/ CheckKey
    \/ CheckPass
    \/ CheckProbe
    \/ WizardMerge
    \/ WizardReturn
    \/ WizardAgain

Spec == Init /\ [][Next]_vars

----------------------------------------------------------------------------
(* Two calls of deploySwarm at once, from two clients of the same host *)

Invocations == {1, 2}

\* client.Upload: the files are written under their paths, by invocation p
Written(fs, up, p) ==
    [x \in DOMAIN fs \cup DOMAIN up |->
        IF x \in DOMAIN up THEN [content |-> up[x], by |-> p] ELSE fs[x]]

\* the argument of rm -rf names a directory, or everything with *
Under(path, target) == target = <<"*">> \/ PathDir(path) = target

\* rm -rf <target>, for each of the commands d: what is under a target goes
Removed(fs, d) ==
    [x \in {y \in DOMAIN fs :
              \A i \in 1..Len(d) : ~Under(y, SubSeq(d[i], 2, Len(d[i])))} |-> fs[x]]

\* the deployments that run at once: a bootstrap node and a peer
PairConfigs ==
    {c \in Configs : c.port = 30399 /\ c.bzzAccount = <<>>
                     /\ ((c.swarmenode = <<>>) <=> (c.keyJSON = <<>>))}

InitPair ==
    /\ inv \in [Invocations ->
                 {[pc |-> "deploy", network |-> <<"tokamak">>, swarmboot |-> <<>>,
                   config |-> c, nocache |-> FALSE, kind |-> "", workdir |-> <<>>,
                   files |-> <<>>, deferred |-> <<>>] : c \in PairConfigs}]
    /\ remote = <<>>
    /\ pc = "pair"
    /\ log = <<>>
    /\ network = <<>>
    /\ swarmboot = <<>>
    /\ config = ZeroConfig
    /\ nocache = FALSE
    /\ kind = ""
    /\ workdir = <<>>
    /\ files = <<>>
    /\ deferred = <<>>
    /\ boot = FALSE
    /\ infos = NoContainer
    /\ loc = NoLocals
    /\ ret = NoResult
    /\ host = HostUnknown
    /\ wiz = [on |-> FALSE]

single == <<pc, log, network, swarmboot, config, nocache, kind, workdir, files,
            deferred, boot, infos, loc, ret, host, wiz>>

\* lines 207-245, by one of the two
PairRender ==
    /\ \E p \in Invocations, r \in RandInt63 :
        /\ inv[p].pc = "deploy"
        /\ inv' = [inv EXCEPT ![p] =
                     [inv[p] EXCEPT
                        !.kind = DeployKind(inv[p].config),
                        !.workdir = Itoa(r),
                        !.files = RenderFiles(Itoa(r), inv[p].network, inv[p].swarmboot,
                                              inv[p].config),
                        !.pc = "upload"]]
    /\ UNCHANGED <<remote, single>>

\* lines 247-250, by one of the two; a failed upload may have written some
\* of its files
PairUpload ==
    /\ \E p \in Invocations, err \in UploadErrors \cup {ErrNil} :
        /\ inv[p].pc = "upload"
        /\ \E done \in SUBSET DOMAIN inv[p].files :
            /\ err = ErrNil => done = DOMAIN inv[p].files
            /\ remote' = Written(remote, [x \in done |-> inv[p].files[x]], p)
        /\ LET step == UploadStep(err, NilBytes, inv[p].workdir, inv[p].deferred)
           IN  inv' = [inv EXCEPT ![p] = [@ EXCEPT !.pc = step.pc,
                                                   !.deferred = step.deferred]]
    /\ UNCHANGED single

\* lines 252-256, by one of the two; the build reads the scratch directory
PairStream ==
    /\ \E p \in Invocations :
        /\ inv[p].pc = "stream"
        /\ inv' = [inv EXCEPT ![p] = [@ EXCEPT !.pc = "deferred"]]
    /\ UNCHANGED <<remote, single>>

\* line 250, by one of the two: the deferred removal runs, or fails
PairDeferred ==
    /\ \E p \in Invocations, err \in {ErrNil, ErrRun} :
        /\ inv[p].pc = "deferred"
        /\ remote' = IF err = ErrNil THEN Removed(remote, inv[p].deferred) ELSE remote
        /\ inv' = [inv EXCEPT ![p] = [@ EXCEPT !.pc = "done", !.deferred = <<>>]]
    /\ UNCHANGED single

NextPair ==
    \/ PairRender
    \/ PairUpload
    \/ PairStream
    \/ PairDeferred

SpecPair == InitPair /\ [][NextPair]_vars

----------------------------------------------------------------------------
(* Properties of deploySwarm *)

\* the run is a call of deploySwarm that has reached its upload
DeployCall == Len(log) >= 1 /\ log[1].op = "Upload"

UploadSucceeded == DeployCall /\ log[1].ok

\* the scratch directory the upload wrote to
ScratchDir == PathDir(CHOOSE p \in DOMAIN log[1].files : TRUE)

StreamOps == {i \in 1..Len(log) : log[i].op = "Stream"}

RunOps == {i \in 1..Len(log) : log[i].op = "Run"}

RemovalOps == {i \in 1..Len(log) : log[i].op = "Run" /\ log[i].cmd = <<"rm -rf ">> \o ScratchDir}

\* C1: once the upload succeeded, deploySwarm streams the build exactly once
\* and then, the stream having returned, issues exactly one removal of this
\* attempt's scratch directory, whether the stream succeeded or failed; no
\* run ever holds a second stream or a removal before the stream.
C1_OneStreamThenOneRemoval ==
    DeployCall =>
        /\ Cardinality(StreamOps) <= 1
        /\ RunOps = RemovalOps
        /\ \A i \in RunOps : \E j \in StreamOps : j < i
        /\ (pc = "done" /\ UploadSucceeded) =>
              /\ Len(log) = 3
              /\ log[2].op = "Stream"
              /\ log[3].op = "Run"
              /\ log[3].cmd = <<"rm -rf ">> \o ScratchDir

C1_Witness ==
    /\ pc = "done"
    /\ UploadSucceeded
    /\ Len(log) = 3
    /\ log[2].op = "Stream" /\ ~log[2].ok
    /\ log[3].op = "Run" /\ log[3].cmd = <<"rm -rf ">> \o ScratchDir

\* C2: once the upload succeeded, deploySwarm returns nil output and exactly
\* the error of the streamed build (nil when it completed cleanly); whether
\* the removal command succeeded or failed changes neither.
C2_ReturnsStreamError ==
    (pc = "done" /\ UploadSucceeded) =>
        /\ ret.out = NilBytes
        /\ ret.err = log[2].err
        /\ (ret.err = ErrNil) = log[2].ok

C2_Witness ==
    /\ pc = "done"
    /\ UploadSucceeded
    /\ log[2].err = ErrStream
    /\ ret.err = ErrStream
    /\ Len(log) = 3 /\ log[3].op = "Run" /\ ~log[3].ok

\* C3: when the upload fails, deploySwarm returns the output and the error
\* the upload reported and issues nothing else: no stream, no removal.
C3_UploadFailureReturnsAtOnce ==
    (DeployCall /\ ~log[1].ok) =>
        /\ pc = "done"
        /\ Len(log) = 1
        /\ ret.out = log[1].out
        /\ ret.err = log[1].err
        /\ ret.err \in UploadErrors

C3_Witness ==
    /\ pc = "done"
    /\ DeployCall /\ ~log[1].ok
    /\ ret.out = Bytes(<<"scp: permission denied">>)
    /\ ret.err = "upload: connection lost"

----------------------------------------------------------------------------
(* Properties of checkSwarmNode *)

\* the run is a call of checkSwarmNode that has inspected the container
CheckCall == Len(log) >= 1 /\ log[1].op = "Inspect"

\* the inspector found the container running
Running == CheckCall /\ log[1].ok /\ infos.running

\* the identity query and the genesis read-back have both succeeded
Identified == Running /\ Len(log) >= 3 /\ log[2].ok /\ log[3].ok

\* C4 as stated: a container the inspector reports as NotFound makes the
\* check return a nil snapshot with ServiceOffline.
C4_NotFoundIsOffline ==
    (CheckCall /\ log[1].err = ErrNotFound) =>
        (pc = "done" /\ ret.infos = NilInfos /\ ret.err = ErrServiceOffline)

\* C4 amended: an error of the inspector, NotFound included, ends the check
\* with a nil snapshot and that same error; ServiceOffline is returned
\* exactly when the inspector succeeded and the container is not running.
C4_InspectorErrorPropagates ==
    CheckCall =>
        /\ ~log[1].ok => (pc = "done" /\ Len(log) = 1 /\ ret.infos = NilInfos
                          /\ ret.err = log[1].err)
        /\ log[1].err = ErrNotFound => ret.err = ErrNotFound
        /\ (pc = "done" /\ ret.err = ErrServiceOffline) <=> (log[1].ok /\ ~infos.running)

C4_Witness ==
    /\ CheckCall
    /\ pc = "done"
    /\ log[1].err = ErrNotFound
    /\ ret = [out |-> NilBytes, err |-> ErrNotFound, infos |-> NilInfos]

\* C5: on a running container a failed identity query or a failed genesis
\* read-back ends the check with Unreachable and a nil snapshot, and the
\* failed command is the last one issued.
C5_HardFailureIsUnreachable ==
    \A i \in {2, 3} :
        (Running /\ Len(log) >= i /\ ~log[i].ok /\ \A j \in 1..(i - 1) : log[j].ok) =>
            /\ pc = "done"
            /\ Len(log) = i
            /\ ret.err = ErrServiceUnreachable
            /\ ret.infos = NilInfos

C5_Witness ==
    /\ Running
    /\ pc = "done"
    /\ Len(log) = 3
    /\ log[2].ok /\ ~log[3].ok
    /\ log[3].cmd = ExecCommand(network, kind, " cat /genesis.json")
    /\ ret.err = ErrServiceUnreachable

\* text of an optional file as the snapshot must hold it: the trimmed
\* output of a read that succeeded, nothing otherwise
ReadBack(op) == IF op.ok THEN TrimSpace(op.out.bytes) ELSE <<>>

\* C6: once the identity and genesis queries succeeded the check never
\* fails: whatever the two credential reads and the reachability probe do,
\* it ends with a snapshot and a nil error; a credential read that failed
\* leaves its own field empty, and the other fields are those the inspector,
\* the identity and the genesis alone determine.
C6_SoftFailuresTolerated ==
    Identified =>
        /\ pc \in {"key", "pass", "probe", "done"}
        /\ pc = "done" =>
            /\ Len(log) = 6
            /\ ret.err = ErrNil
            /\ ~ret.infos.nil
            /\ ret.infos.keyJSON = ReadBack(log[4])
            /\ ret.infos.keyPass = ReadBack(log[5])
            /\ ~log[4].ok => ret.infos.keyJSON = <<>>
            /\ ~log[5].ok => ret.infos.keyPass = <<>>
            /\ ret.infos.genesis = TrimSpace(log[3].out.bytes)
            /\ ret.infos.swarmenode =
                  <<"enode://">> \o TrimQuote(TrimSpace(log[2].out.bytes)) \o <<"@">>
                  \o ClientAddress \o <<":">> \o Itoa(ret.infos.port)
            /\ ret.infos.datadir = MapStr(infos.volumes, "/root/.ethereum")
            /\ ret.infos.bzzAccount = MapStr(infos.envvars, "BZZ_NAME")
            /\ ret.infos.peersTotal = TotalPeers(infos)
            /\ ret.infos.port = LookupPort(infos)

C6_Witness ==
    /\ Identified
    /\ pc = "done"
    /\ ~log[4].ok /\ log[5].ok /\ ~log[6].ok
    /\ ret.err = ErrNil
    /\ ret.infos.keyJSON = <<>>
    /\ ret.infos.keyPass = <<"secret">>
    /\ ret.infos.genesis = <<"{genesis}">>

\* the snapshot returned by a check that succeeded
Snapshot == ret.infos

CheckSucceeded == CheckCall /\ pc = "done" /\ ret.err = ErrNil

\* C7 as stated: with the environment exactly {TOTAL_PEERS: 50} and the port
\* mapping exactly {30303: 31000} the snapshot has peer count 50 and port
\* 31000.
C7_ScenarioPort ==
    (/\ CheckSucceeded
     /\ DOMAIN infos.envvars = {"TOTAL_PEERS"}
     /\ infos.envvars["TOTAL_PEERS"] = <<"5", "0">>
     /\ DOMAIN infos.portmap = {<<"3", "0", "3", "0", "3">>}
     /\ infos.portmap[<<"3", "0", "3", "0", "3">>] = 31000)
    => (Snapshot.peersTotal = 50 /\ Snapshot.port = 31000)

\* C7 amended: the snapshot's port is the host port the port mapping binds
\* to the key named by the container's PORT variable, and 0 when PORT is not
\* set or not mapped; so environment {TOTAL_PEERS: 50, PORT: 30303} with
\* mapping {30303: 31000} gives peer count 50 and port 31000, and
\* environment {TOTAL_PEERS: 50} alone gives peer count 50 and port 0.
C7_PortFollowsPortVariable ==
    CheckSucceeded =>
        LET env == infos.envvars
            pm  == infos.portmap
        IN  /\ ("PORT" \in DOMAIN env /\ env["PORT"] \in DOMAIN pm)
                => Snapshot.port = pm[env["PORT"]]
            /\ ("PORT" \notin DOMAIN env \/ env["PORT"] \notin DOMAIN pm)
                => Snapshot.port = 0
            /\ ("TOTAL_PEERS" \in DOMAIN env /\ env["TOTAL_PEERS"] = <<"5", "0">>)
                => Snapshot.peersTotal = 50
            /\ ("PORT" \in DOMAIN env /\ env["PORT"] = <<"3", "0", "3", "0", "3">>
                /\ <<"3", "0", "3", "0", "3">> \in DOMAIN pm
                /\ pm[<<"3", "0", "3", "0", "3">>] = 31000)
                => Snapshot.port = 31000

C7_Witness ==
    /\ CheckSucceeded
    /\ DOMAIN infos.envvars = {"TOTAL_PEERS", "PORT"}
    /\ infos.envvars["TOTAL_PEERS"] = <<"5", "0">>
    /\ infos.envvars["PORT"] = <<"3", "0", "3", "0", "3">>
    /\ DOMAIN infos.portmap = {<<"3", "0", "3", "0", "3">>}
    /\ Snapshot.peersTotal = 50
    /\ Snapshot.port = 31000

----------------------------------------------------------------------------
(* Properties of the rendered build recipe and of the build command *)

\* deploySwarm has rendered its artifacts
Rendered == pc \in {"upload", "stream", "deferred", "done"} /\ workdir # <<>>

\* the build recipe among the rendered artifacts
Recipe == files[workdir \o <<"/", "Dockerfile">>]

\* the peer list the recipe hands to --bootnodes, empty without the flag
RecipePeerList(r) ==
    IF IndexOf(r, "--bootnodes ") = 0 THEN <<>>
    ELSE SubSeq(r, IndexOf(r, "--bootnodes ") + 1, IndexOf(r, " --password /bzzpass") - 1)

\* strings.Split(s, sep): the inverse of a join
RECURSIVE Split(_, _)
Split(s, sep) ==
    IF IndexOf(s, sep) = 0 THEN <<s>>
    ELSE <<SubSeq(s, 1, IndexOf(s, sep) - 1)>>
         \o Split(SubSeq(s, IndexOf(s, sep) + 1, Len(s)), sep)

\* C8: with Role = Bootstrap (no prior node identity) the rendered build
\* recipe holds no bootstrap-peer entry, whatever list was supplied: neither
\* the --bootnodes flag nor any supplied peer address occurs in it.
C8_BootstrapHasNoPeerList ==
    (Rendered /\ config.swarmenode = <<>>) =>
        /\ ~Contains(Recipe, "--bootnodes ")
        /\ \A i \in 1..Len(swarmboot) : \A j \in 1..Len(swarmboot[i]) :
              ~Contains(Recipe, swarmboot[i][j])
        /\ kind = "swarmboot"

C8_Witness ==
    /\ Rendered
    /\ pc = "done"
    /\ config.swarmenode = <<>>
    /\ Len(swarmboot) = 2
    /\ swarmboot[1] # <<>> /\ swarmboot[2] # <<>>
    /\ UploadSucceeded
    /\ ~Contains(log[1].files[workdir \o <<"/", "Dockerfile">>], "--bootnodes ")

\* C9: with Role = Peer (a prior node identity) and a non-empty supplied
\* list, the peer list of the rendered build recipe is the supplied list
\* joined by commas in its original order: split at the commas it gives the
\* supplied list back.
C9_PeerListIsCommaJoin ==
    (Rendered /\ config.swarmenode # <<>> /\ swarmboot # <<>>) =>
        /\ Split(RecipePeerList(Recipe), ",") = swarmboot
        /\ kind = "swarmnode"

C9_Witness ==
    /\ Rendered
    /\ config.swarmenode # <<>>
    /\ Len(swarmboot) = 2
    /\ swarmboot[1] # swarmboot[2]
    /\ swarmboot[1] # <<>> /\ swarmboot[2] # <<>>
    /\ RecipePeerList(Recipe) = swarmboot[1] \o <<",">> \o swarmboot[2]

\* C10: with forceRebuild the streamed command is a build with --pull and
\* --no-cache followed by an up with --force-recreate, otherwise it is the
\* single up -d --build --force-recreate; either way it first changes into
\* the scratch directory the upload wrote to and names the given network.
C10_BuildCommandShape ==
    \A i \in 1..Len(log) :
        (DeployCall /\ log[i].op = "Stream") =>
            /\ i = 2
            /\ log[1].ok
            /\ \A p \in DOMAIN log[1].files : PathDir(p) = ScratchDir
            /\ log[i].cmd =
                  IF nocache
                  THEN <<"cd ">> \o ScratchDir \o <<" && docker-compose -p ">> \o network
                       \o <<" build --pull --no-cache && docker-compose -p ">> \o network
                       \o <<" up -d --force-recreate">>
                  ELSE <<"cd ">> \o ScratchDir \o <<" && docker-compose -p ">> \o network
                       \o <<" up -d --build --force-recreate">>

C10_Witness ==
    /\ DeployCall
    /\ pc = "done"
    /\ nocache
    /\ Len(log) = 3
    /\ log[2].op = "Stream"
    /\ Contains(log[2].cmd, " build --pull --no-cache && docker-compose -p ")
    /\ log[2].cmd[Len(log[2].cmd)] = " up -d --force-recreate"

----------------------------------------------------------------------------
(* Properties of the rendered artifacts *)

\* the composition descriptor among the rendered artifacts
Compose == files[workdir \o <<"/", "docker-compose.yaml">>]

\* the base name of an artifact's path
BaseName(p) == p[Len(p)]

\* some token of text t occurs in text s
Leaks(s, t) == \E i \in 1..Len(t) : Contains(s, t[i])

\* C11: with credential material in the configuration the passphrase occurs
\* neither in the build recipe nor in the composition descriptor, nor in any
\* artifact but the passphrase file, whose content it is; the recipe names
\* that file by path only.
C11_PassphraseOnlyInItsFile ==
    (Rendered /\ config.keyJSON # <<>>) =>
        /\ ~Leaks(Recipe, config.keyPass)
        /\ ~Leaks(Compose, config.keyPass)
        /\ \A p \in DOMAIN files : BaseName(p) # "bzzpass" => ~Leaks(files[p], config.keyPass)
        /\ files[workdir \o <<"/", "bzzpass">>] = config.keyPass
        /\ Contains(Recipe, "ADD bzzpass /bzzpass\n")
        /\ Contains(Recipe, " --password /bzzpass")

C11_Witness ==
    /\ Rendered
    /\ pc = "done"
    /\ UploadSucceeded
    /\ config.keyPass = <<"secret">>
    /\ log[1].files[workdir \o <<"/", "bzzpass">>] = <<"secret">>
    /\ ~Contains(log[1].files[workdir \o <<"/", "Dockerfile">>], "secret")

\* C12: the composition descriptor declares one service named after the
\* role and publishes the primary listen port over TCP and over UDP and the
\* secondary (bzz) port over TCP.
C12_PublishesBothPorts ==
    Rendered =>
        /\ ComposeService(Compose) = <<DeployKind(config)>>
        /\ Publishes(Compose, Itoa(config.port), "/tcp")
        /\ Publishes(Compose, Itoa(config.port), "/udp")
        /\ Publishes(Compose, Itoa(config.bzzPort), "/tcp")

\* C20: every file the build recipe references by relative path is in the
\* artifact set of the same scratch directory, and the credential files are
\* in the artifact set exactly when the configuration holds credential
\* material.
C20_ReferencedFilesUploaded ==
    Rendered =>
        /\ \A n \in ReferencedFiles(Recipe) : PathJoin(workdir, n) \in DOMAIN files
        /\ \A n \in {"bzzkey.json", "bzzpass"} :
              (PathJoin(workdir, n) \in DOMAIN files) <=> (config.keyJSON # <<>>)

-----------------------------------------------------------------------------
\* Properties relating a deployment to the status check of what it deployed

\* the call was a deployment whose upload and build both succeeded
DeploySucceeded ==
    DeployCall /\ pc = "done" /\ StreamOps # {} /\ \A i \in StreamOps : log[i].ok

\* the Role of the deployed configuration: Bootstrap without a prior identity
Bootstrap == config.swarmenode = <<>>

\* C18: after a successful deploy of network N with a role, the container a
\* status check of network N for that role inspects is the container the
\* deploy created, N_<deployed service name>_1.
C18_CheckTargetsDeployedContainer ==
    DeploySucceeded =>
        ContainerName(network, CheckKind(Bootstrap)) = ComposeContainer(network, Compose)

-----------------------------------------------------------------------------
\* Properties of the wizard

\* the wizard has merged and is in its call of deploySwarm
Deploying == wiz.on /\ wiz.phase = "deploy"

\* the snapshot the status check returned to the wizard
Offered == wiz.snap.infos

TextFields == {"genesis", "datadir", "swarmenode", "bzzAccount", "keyJSON", "keyPass"}

NumberFields == {"port", "peersTotal", "bzzPort", "network"}

\* C13 as stated: when the check returned a snapshot and the operator takes
\* every offered default, every field present in the snapshot, the genesis
\* payload included, has the snapshot's value in the configuration deployed.
C13_DefaultsKeepSnapshot ==
    (Deploying /\ wiz.existed /\ wiz.accept) =>
        /\ \A f \in TextFields : Offered[f] # <<>> => config[f] = Offered[f]
        /\ \A f \in NumberFields : Offered[f] # 0 => config[f] = Offered[f]

\* C13: when the check returned a snapshot and the operator takes every
\* offered default, the configuration deployed has the snapshot's listen
\* port, bzz port, peer cap and node identity, its data directory when it has
\* one, its key and passphrase when it has a key, and its account in
\* checksummed form when it has one; the genesis payload and the network id
\* are those of the wizard's configured genesis, whatever the snapshot held.
C13_DefaultsKeepPromptedFields ==
    (Deploying /\ wiz.existed /\ wiz.accept) =>
        /\ config.port = Offered.port
        /\ config.bzzPort = Offered.bzzPort
        /\ config.peersTotal = Offered.peersTotal
        /\ config.swarmenode = Offered.swarmenode
        /\ Offered.datadir # <<>> => config.datadir = Offered.datadir
        /\ Offered.keyJSON # <<>> =>
              config.keyJSON = Offered.keyJSON /\ config.keyPass = Offered.keyPass
        /\ Offered.bzzAccount # <<>> => config.bzzAccount = HexToAddressHex(Offered.bzzAccount)
        /\ config.genesis = wiz.genesis
        /\ config.network = wiz.chain

C13_Witness ==
    /\ Deploying /\ wiz.existed /\ wiz.accept
    /\ pc = "upload"
    /\ Offered.port = 31000 /\ config.port = 31000
    /\ Offered.genesis = <<"{genesis}">> /\ config.genesis = <<"{genesis-2}">>

\* C14: when the status check reports that no container exists, the wizard
\* offers the defaults (listen port 30399, 50 peers), does not take the
\* check for an existing node, and calls deploySwarm without a forced rebuild
\* and without a prior node identity, so that the Role is Bootstrap.
C14_NoContainerMeansFreshDeployment ==
    (Deploying /\ wiz.snap.err = ErrNotFound) =>
        /\ ~wiz.existed
        /\ nocache = FALSE
        /\ config.swarmenode = <<>>
        /\ Rendered => kind = "swarmboot"
        /\ wiz.accept => config.port = DefaultPort /\ config.peersTotal = DefaultPeers

C14_Witness ==
    /\ Deploying /\ wiz.snap.err = ErrNotFound /\ wiz.accept
    /\ pc = "done" /\ DeploySucceeded
    /\ kind = "swarmboot" /\ config.port = DefaultPort

\* the operator was asked for a key and what was typed does not decrypt
BadKey == wiz.on /\ wiz.typed # <<>> /\ ~DecryptKey(wiz.typed[1], wiz.typed[2])

DeployOps(l) ==
    {i \in 1..Len(l) : l[i].op \in {"Upload", "Stream"} \/
                       (l[i].op = "Run" /\ l[i].cmd[1] = "rm -rf ")}

\* C17: when the key typed by the operator does not decrypt with the typed
\* passphrase the wizard ends there: deploySwarm is never called and no
\* upload, build stream or removal command is issued.
C17_UndecryptableKeyAborts ==
    BadKey =>
        /\ pc = "aborted"
        /\ log = <<>> /\ files = <<>> /\ workdir = <<>>
        /\ DeployOps(wiz.checklog) = {}

C17_Witness ==
    /\ BadKey /\ pc = "aborted"
    /\ wiz.typed[2] = <<"wrong">>
    /\ Len(wiz.checklog) >= 1

\* C19: a successful status check of the container a successful deployment
\* created returns the listen port, peer cap, account and data directory of
\* the deployed configuration, the container having in its environment the
\* three variables the checker reads.
C19_DeployThenCheckRoundTrip ==
    (wiz.on /\ wiz.run > 1 /\ wiz.phase = "check" /\ CheckSucceeded
        /\ log[1].cmd = wiz.prev.container) =>
        /\ EnvKeys \subseteq DOMAIN infos.envvars
        /\ Snapshot.port = wiz.prev.config.port
        /\ Snapshot.peersTotal = wiz.prev.config.peersTotal
        /\ Snapshot.bzzAccount = wiz.prev.config.bzzAccount
        /\ Snapshot.datadir = wiz.prev.config.datadir

\* C15: run twice in a row by an operator who takes every offered default,
\* every remote command succeeding, the wizard deploys in its second run the
\* Role, service name and artifact contents of its first run.
C15_SecondRunDeploysTheSame ==
    (Deploying /\ wiz.run = 2 /\ wiz.accept /\ Rendered
        /\ wiz.prev.clean /\ CleanCheck(wiz.checklog)) =>
        /\ kind = wiz.prev.kind
        /\ (config.swarmenode = <<>>) <=> (wiz.prev.config.swarmenode = <<>>)
        /\ Artifacts(files, workdir) = wiz.prev.artifacts

-----------------------------------------------------------------------------
\* Properties of two deployments at once

\* the paths of the host that lie in the scratch directory of invocation q
ScratchOf(q) ==
    {x \in DOMAIN remote \cup DOMAIN remote' : PathDir(x) = inv[q].workdir}

\* the step leaves the file at path x as it was
Untouched(x) ==
    /\ (x \in DOMAIN remote) <=> (x \in DOMAIN remote')
    /\ x \in DOMAIN remote => remote'[x] = remote[x]

\* C16: whenever two concurrent deployments have different scratch directory
\* names, no step of one of them (upload, stream, removal) writes or deletes
\* a file in the scratch directory of the other.
C16_ScratchDirectoriesDoNotCollide ==
    [][\A p \in Invocations, q \in Invocations :
          (inv'[p] # inv[p] /\ p # q /\ inv[q].workdir # <<>>
              /\ inv'[p].workdir # inv[q].workdir) =>
          \A x \in ScratchOf(q) : Untouched(x)]_vars

\* one has removed its scratch directory while the other's upload is intact
C16_Witness ==
    /\ pc = "pair"
    /\ inv[1].pc = "done" /\ inv[1].workdir # <<>> /\ inv[1].workdir # inv[2].workdir
    /\ inv[2].pc = "stream"
    /\ \A x \in DOMAIN inv[1].files : x \notin DOMAIN remote
    /\ \A x \in DOMAIN inv[2].files :
          x \in DOMAIN remote /\ remote[x] = [content |-> inv[2].files[x], by |-> 2]

====
